---- MODULE Spec2Model ----
(***************************************************************************)
(* Live auction bidding engine of server/services/socketService.js.        *)
(*                                                                         *)
(* The engine is one Node.js process: every socket.io handler runs to      *)
(* completion before the next one starts, so each handler is one atomic    *)
(* action.  The state is the module-level auctionState object, the two     *)
(* connectedSockets maps, the wall clock read by Date.now(), and the       *)
(* events the last handler emitted.                                        *)
(*                                                                         *)
(* Every slot of Sockets holds a live connection.  socket.io never reuses  *)
(* a socket id, so Disconnect(s) stands for the disconnect of the          *)
(* connection in slot s followed by a fresh, unregistered connection       *)
(* taking the slot.                                                        *)
(***************************************************************************)
EXTENDS Integers, Sequences, FiniteSets, TLC

\* ---------------------------------------------------------------- bounds
\* Most bids the queue holds, latest clock value, most commands handled after
\* the connections have registered.
MaxQueue    == 2
MaxClock    == 2
MaxCommands == 4
\* Most commands handled in the reconnection scenarios.
MaxReconnect == 5

\* ------------------------------------------------------- values of the code
\* JavaScript `undefined` (a field missing from a payload, or `?.` on null).
Undef == -1
\* JavaScript `null` for auctionState.currentLot; a lot is modelled by its number.
Null == 0
\* Initial auctionState.bidIncrement, and the default of `data.bidIncrement || 5`.
DefaultIncrement == 5

\* socket.id of the connections
Sockets == {1, 2}
\* Date.now() values, hence the bid ids a clerk can name
Clock   == 1..MaxClock
BidIds  == Clock

\* -------------------------------------------------- payloads of the commands
\* register:bidder {bidderId, name}
Identities == { [bidderId |-> 1, name |-> "ann"],
                [bidderId |-> 2, name |-> "bob"] }
\* bid:submit {amount}
Amounts == {0, 1, 2}
\* auction:start {lot, startingBid, bidIncrement}, with and without its fields
StartPayloads ==
    { [lot |-> 1,     startingBid |-> 1,     bidIncrement |-> 2],
      [lot |-> Undef, startingBid |-> Undef, bidIncrement |-> Undef] }
\* auction:setLot {lot, startingBid}
SetLotPayloads ==
    { [lot |-> 1, startingBid |-> Undef],
      [lot |-> 2, startingBid |-> 1] }
\* auction:updateBid {amount, source}; "" stands for a payload without source
UpdateBidPayloads ==
    { [amount |-> 0, source |-> ""],
      [amount |-> 2, source |-> "online"] }
\* auction:sold {amount, winner, isOnline}
SoldPayloads ==
    { [amount |-> 2, winner |-> "w7", isOnline |-> TRUE] }
\* bid:reject {reason}
Reasons == {"late"}
\* POST /record-sale body {lotNumber, winningBid, buyerNumber, buyerName,
\* isOnline}: complete, without the optional buyerName (""), with a winning
\* bid of 0, and without one of the three required fields
RecordSalePayloads ==
    { [lotNumber |-> 1, winningBid |-> 2, buyerNumber |-> 7,
       buyerName |-> "ann", isOnline |-> TRUE],
      [lotNumber |-> 1, winningBid |-> 2, buyerNumber |-> 7,
       buyerName |-> "", isOnline |-> FALSE],
      [lotNumber |-> 1, winningBid |-> 0, buyerNumber |-> 7,
       buyerName |-> "ann", isOnline |-> TRUE],
      [lotNumber |-> Undef, winningBid |-> 2, buyerNumber |-> 7,
       buyerName |-> "ann", isOnline |-> TRUE],
      [lotNumber |-> 1, winningBid |-> Undef, buyerNumber |-> 7,
       buyerName |-> "ann", isOnline |-> TRUE],
      [lotNumber |-> 1, winningBid |-> 2, buyerNumber |-> Undef,
       buyerName |-> "ann", isOnline |-> TRUE] }
\* auction:setLot payloads that carry no lot
SetLotPayloadsWithoutLot ==
    { [lot |-> Undef, startingBid |-> Undef],
      [lot |-> Undef, startingBid |-> 1] }

\* ------------------------------------------------------------------ state
VARIABLES
    isLive,            \* auctionState.isLive
    currentLot,        \* auctionState.currentLot (Null, or the lot's number)
    currentBid,        \* auctionState.currentBid
    bidIncrement,      \* auctionState.bidIncrement
    onlineBids,        \* auctionState.onlineBids, in push order
    connectedClients,  \* auctionState.connectedClients {bidders, clerks}
    bidders,           \* connectedSockets.bidders, a Map: entries in insertion order
    clerks,            \* connectedSockets.clerks: the socket ids it holds
    now,               \* the wall clock, Date.now()
    handled,           \* how many commands the engine has handled so far
    sent,              \* the events emitted by the last handler, in emission order
    acceptedBy,        \* history: for each queued bid, the sockets whose bid:accept
                       \* on it has succeeded
    submittedBy,       \* history: for each queued bid, the socket it was submitted
                       \* on, 0 once that connection has gone
    ended,             \* history: an auction:end has been handled and no
                       \* auction:start since
    failed             \* a handler has thrown: nothing catches it, so the
                       \* engine process has exited

auction == <<isLive, currentLot, currentBid, bidIncrement, onlineBids>>
registry == <<bidders, clerks, connectedClients>>
vars == <<isLive, currentLot, currentBid, bidIncrement, onlineBids,
          connectedClients, bidders, clerks, now, handled, sent, acceptedBy,
          submittedBy, ended, failed>>

\* ---------------------------------------------------------------- helpers
\* LeqJS with the comparison made strict, as `amount < currentBid` would be.
LeqJS_Strict(a, b) == a # Undef /\ b # Undef /\ a < b

\* JS `a <= b` on numbers-or-undefined: undefined converts to NaN, and every
\* comparison with NaN is false.
LeqJS(a, b) == a # Undef /\ b # Undef /\ a <= b

\* JS `x || d` for a number or undefined x: 0 and undefined are falsy.
OrDefault(x, d) == IF x = Undef \/ x = 0 THEN d ELSE x

\* auctionState.currentLot?.number
LotNumberOf(lot) == IF lot = Null \/ lot = Undef THEN Undef ELSE lot

\* connectedSockets.bidders.has(id) / .get(id)
BidderSockets == { bidders[i].sock : i \in 1..Len(bidders) }
HasBidder(s) == s \in BidderSockets
GetBidder(s) == bidders[CHOOSE i \in 1..Len(bidders) : bidders[i].sock = s]

\* MapSet adding an entry also when the key is already there.
MapSet_AlwaysAppends(m, s, id) ==
    Append(m, [sock |-> s, bidderId |-> id.bidderId, name |-> id.name])

\* Map.prototype.set: an existing key keeps its place, a new key goes last.
MapSet(m, s, id) ==
    IF \E i \in 1..Len(m) : m[i].sock = s
    THEN [i \in 1..Len(m) |->
            IF m[i].sock = s
            THEN [sock |-> s, bidderId |-> id.bidderId, name |-> id.name]
            ELSE m[i]]
    ELSE Append(m, [sock |-> s, bidderId |-> id.bidderId, name |-> id.name])

\* Map.prototype.delete
MapDelete(m, s) == SelectSeq(m, LAMBDA e : e.sock # s)

\* Array.prototype.findIndex(b => b.id === bidId): first match, 0 for -1.
FindIndex(q, bidId) ==
    IF \E i \in 1..Len(q) : q[i].id = bidId
    THEN CHOOSE i \in 1..Len(q) :
            q[i].id = bidId /\ \A j \in 1..(i - 1) : q[j].id # bidId
    ELSE 0

\* Array.from(bidders.values()).find(b => b.bidderId === bid.bidderId):
\* the socket of the first entry with that bidderId, 0 when there is none.
FindBidderSocket(m, bidderId) ==
    IF \E i \in 1..Len(m) : m[i].bidderId = bidderId
    THEN m[CHOOSE i \in 1..Len(m) :
              m[i].bidderId = bidderId /\ \A j \in 1..(i - 1) : m[j].bidderId # bidderId].sock
    ELSE 0

\* One emitted event: recipient, event name, payload.
Msg(to, event, data) == [to |-> to, event |-> event, data |-> data]

\* socket.emit(event, data)
EmitTo(s, event, data) == << Msg(s, event, data) >>

RECURSIVE SeqOfSet(_)
SeqOfSet(S) ==
    IF S = {} THEN << >>
    ELSE LET x == CHOOSE y \in S : \A z \in S : y <= z
         IN  << x >> \o SeqOfSet(S \ {x})

\* EmitRoom reaching every connected socket instead of the room's sockets.
EmitRoom_Broadcast(room, event, data) ==
    LET r == SeqOfSet(Sockets)
    IN  [i \in 1..Len(r) |-> Msg(r[i], event, data)]

\* io.to(room).emit(event, data): one copy for each socket of the room.
EmitRoom(room, event, data) ==
    LET r == SeqOfSet(room)
    IN  [i \in 1..Len(r) |-> Msg(r[i], event, data)]

\* io.emit(event, data): every connected socket.
EmitAll(event, data) == EmitRoom(Sockets, event, data)

\* getPublicAuctionState returning the bid queue as well.
getPublicAuctionState_WithBids ==
    [isLive        |-> isLive,
     currentLot    |-> currentLot,
     currentBid    |-> currentBid,
     bidIncrement  |-> bidIncrement,
     onlineBidders |-> connectedClients.bidders,
     onlineBids    |-> onlineBids]

\* getPublicAuctionState(): the redacted state sent to bidders.
getPublicAuctionState ==
    [isLive        |-> isLive,
     currentLot    |-> currentLot,
     currentBid    |-> currentBid,
     bidIncrement  |-> bidIncrement,
     onlineBidders |-> connectedClients.bidders]

\* The auctionState object, as serialised into auction:fullState.
auctionState ==
    [isLive           |-> isLive,
     currentLot       |-> currentLot,
     currentBid       |-> currentBid,
     bidIncrement     |-> bidIncrement,
     onlineBids       |-> onlineBids,
     connectedClients |-> connectedClients]

\* ------------------------------------------------------------------- init
Init ==
    /\ isLive = FALSE
    /\ currentLot = Null
    /\ currentBid = 0
    /\ bidIncrement = DefaultIncrement
    /\ onlineBids = << >>
    /\ connectedClients = [bidders |-> 0, clerks |-> 0]
    /\ bidders = << >>
    /\ clerks = {}
    /\ now = 1
    /\ handled = 0
    /\ sent = << >>
    /\ acceptedBy = << >>
    /\ submittedBy = << >>
    /\ ended = FALSE
    /\ failed = FALSE

\* --------------------------------------------------------- registration
RegisterBidder(s, id) ==
    /\ UNCHANGED <<auction, clerks, now, acceptedBy, submittedBy, ended, failed>>
    /\ bidders' = MapSet(bidders, s, id)
    /\ connectedClients' = [connectedClients EXCEPT !.bidders = Len(bidders')]
    /\ sent' = EmitTo(s, "auction:state", getPublicAuctionState')
               \o EmitRoom(clerks, "bidders:count", connectedClients'.bidders)

RegisterClerk(s) ==
    /\ UNCHANGED <<auction, bidders, now, acceptedBy, submittedBy, ended, failed>>
    /\ clerks' = clerks \cup {s}
    /\ connectedClients' = [connectedClients EXCEPT !.clerks = Cardinality(clerks')]
    /\ sent' = EmitTo(s, "auction:fullState", auctionState')

\* register:bidder with no payload: destructuring `data` throws before the
\* handler has changed or emitted anything.
RegisterBidderWithoutData(s) ==
    /\ failed' = TRUE
    /\ sent' = << >>
    /\ UNCHANGED <<auction, registry, now, acceptedBy, submittedBy, ended>>

\* register:clerk with no payload: the same.
RegisterClerkWithoutData(s) ==
    /\ failed' = TRUE
    /\ sent' = << >>
    /\ UNCHANGED <<auction, registry, now, acceptedBy, submittedBy, ended>>

\* Disconnect that also drops the bids submitted on the socket from the queue.
Disconnect_DropsBids(s) ==
    LET m == MapDelete(bidders, s)
        c == clerks \ {s}
        counts == [bidders |-> IF HasBidder(s) THEN Len(m)
                               ELSE connectedClients.bidders,
                   clerks  |-> IF s \in clerks THEN Cardinality(c)
                               ELSE connectedClients.clerks]
        keep == SeqOfSet({ i \in 1..Len(onlineBids) : submittedBy[i] # s })
    IN  /\ bidders' = m
        /\ clerks' = c
        /\ connectedClients' = counts
        /\ sent' = IF HasBidder(s)
                   THEN EmitRoom(c, "bidders:count", Len(m))
                   ELSE << >>
        /\ onlineBids' = [k \in 1..Len(keep) |-> onlineBids[keep[k]]]
        /\ acceptedBy' = [k \in 1..Len(keep) |-> acceptedBy[keep[k]]]
        /\ submittedBy' = [k \in 1..Len(keep) |-> submittedBy[keep[k]]]
        /\ UNCHANGED <<isLive, currentLot, currentBid, bidIncrement, now, ended, failed>>

\* Disconnect that stops the auction when the last clerk goes away.
Disconnect_LastClerkEnds(s) ==
    LET m == MapDelete(bidders, s)
        c == clerks \ {s}
        counts == [bidders |-> IF HasBidder(s) THEN Len(m)
                               ELSE connectedClients.bidders,
                   clerks  |-> IF s \in clerks THEN Cardinality(c)
                               ELSE connectedClients.clerks]
    IN  /\ bidders' = m
        /\ clerks' = c
        /\ connectedClients' = counts
        /\ sent' = IF HasBidder(s)
                   THEN EmitRoom(c, "bidders:count", Len(m))
                   ELSE << >>
        /\ submittedBy' = [i \in 1..Len(submittedBy) |->
                              IF submittedBy[i] = s THEN 0 ELSE submittedBy[i]]
        /\ isLive' = (isLive /\ ~(s \in clerks /\ c = {}))
        /\ UNCHANGED <<currentLot, currentBid, bidIncrement, onlineBids, now,
                       acceptedBy, ended, failed>>

\* The socket has left its rooms when the disconnect handler runs.
\* Disconnect that leaves the stored clerk count as it was.
Disconnect_KeepsClerkCount(s) ==
    LET m == MapDelete(bidders, s)
        c == clerks \ {s}
        counts == [bidders |-> IF HasBidder(s) THEN Len(m)
                               ELSE connectedClients.bidders,
                   clerks  |-> connectedClients.clerks]
    IN  /\ bidders' = m
        /\ clerks' = c
        /\ connectedClients' = counts
        /\ sent' = IF HasBidder(s)
                   THEN EmitRoom(c, "bidders:count", Len(m))
                   ELSE << >>
        /\ submittedBy' = [i \in 1..Len(submittedBy) |->
                              IF submittedBy[i] = s THEN 0 ELSE submittedBy[i]]
        /\ UNCHANGED <<auction, now, acceptedBy, ended, failed>>

Disconnect(s) ==
    LET m == MapDelete(bidders, s)
        c == clerks \ {s}
        counts == [bidders |-> IF HasBidder(s) THEN Len(m)
                               ELSE connectedClients.bidders,
                   clerks  |-> IF s \in clerks THEN Cardinality(c)
                               ELSE connectedClients.clerks]
    IN  /\ bidders' = m
        /\ clerks' = c
        /\ connectedClients' = counts
        /\ sent' = IF HasBidder(s)
                   THEN EmitRoom(c, "bidders:count", Len(m))
                   ELSE << >>
        /\ submittedBy' = [i \in 1..Len(submittedBy) |->
                              IF submittedBy[i] = s THEN 0 ELSE submittedBy[i]]
        /\ UNCHANGED <<auction, now, acceptedBy, ended, failed>>

\* ---------------------------------------------------------------- bidding
\* The bid record built by bid:submit.
NewBid(bidder, amount, t) ==
    [id         |-> t,
     bidderId   |-> bidder.bidderId,
     bidderName |-> bidder.name,
     amount     |-> amount,
     lotNumber  |-> LotNumberOf(currentLot),
     timestamp  |-> t,
     status     |-> "pending",
     isOnline   |-> TRUE]

\* BidSubmit with the isLive check made before the registration check.
BidSubmit_LiveFirst(s, amount, t) ==
    /\ t >= now
    /\ UNCHANGED <<isLive, currentLot, currentBid, bidIncrement, registry>>
    /\ IF ~isLive
       THEN /\ sent' = EmitTo(s, "bid:error", [message |-> "AuctionNotLive"])
            /\ UNCHANGED <<onlineBids, now, acceptedBy, submittedBy, ended, failed>>
       ELSE IF ~HasBidder(s)
       THEN /\ sent' = EmitTo(s, "bid:error", [message |-> "NotRegistered"])
            /\ UNCHANGED <<onlineBids, now, acceptedBy, submittedBy, ended, failed>>
       ELSE IF LeqJS(amount, currentBid)
       THEN /\ sent' = EmitTo(s, "bid:error",
                              [message |-> "BidTooLow", currentBid |-> currentBid])
            /\ UNCHANGED <<onlineBids, now, acceptedBy, submittedBy, ended, failed>>
       ELSE LET bid == NewBid(GetBidder(s), amount, t)
            IN  /\ Len(onlineBids) < MaxQueue
                /\ now' = t
                /\ onlineBids' = Append(onlineBids, bid)
                /\ acceptedBy' = Append(acceptedBy, {})
                /\ submittedBy' = Append(submittedBy, s)
                /\ UNCHANGED <<ended, failed>>
                /\ sent' = EmitTo(s, "bid:confirmed", [bid |-> bid])
                           \o EmitRoom(clerks, "bid:new", bid)

\* BidSubmit putting the new bid at the head of the queue.
BidSubmit_Prepends(s, amount, t) ==
    /\ t >= now
    /\ UNCHANGED <<isLive, currentLot, currentBid, bidIncrement, registry>>
    /\ IF ~HasBidder(s)
       THEN /\ sent' = EmitTo(s, "bid:error", [message |-> "NotRegistered"])
            /\ UNCHANGED <<onlineBids, now, acceptedBy, submittedBy, ended, failed>>
       ELSE IF ~isLive
       THEN /\ sent' = EmitTo(s, "bid:error", [message |-> "AuctionNotLive"])
            /\ UNCHANGED <<onlineBids, now, acceptedBy, submittedBy, ended, failed>>
       ELSE IF LeqJS(amount, currentBid)
       THEN /\ sent' = EmitTo(s, "bid:error",
                              [message |-> "BidTooLow", currentBid |-> currentBid])
            /\ UNCHANGED <<onlineBids, now, acceptedBy, submittedBy, ended, failed>>
       ELSE LET bid == NewBid(GetBidder(s), amount, t)
            IN  /\ Len(onlineBids) < MaxQueue
                /\ now' = t
                /\ onlineBids' = << bid >> \o onlineBids
                /\ acceptedBy' = << {} >> \o acceptedBy
                /\ submittedBy' = << s >> \o submittedBy
                /\ UNCHANGED <<ended, failed>>
                /\ sent' = EmitTo(s, "bid:confirmed", [bid |-> bid])
                           \o EmitRoom(clerks, "bid:new", bid)

\* BidSubmit that wants a bid to reach currentBid + bidIncrement.
BidSubmit_UsesIncrement(s, amount, t) ==
    /\ t >= now
    /\ UNCHANGED <<isLive, currentLot, currentBid, bidIncrement, registry>>
    /\ IF ~HasBidder(s)
       THEN /\ sent' = EmitTo(s, "bid:error", [message |-> "NotRegistered"])
            /\ UNCHANGED <<onlineBids, now, acceptedBy, submittedBy, ended, failed>>
       ELSE IF ~isLive
       THEN /\ sent' = EmitTo(s, "bid:error", [message |-> "AuctionNotLive"])
            /\ UNCHANGED <<onlineBids, now, acceptedBy, submittedBy, ended, failed>>
       ELSE IF amount = Undef \/ currentBid = Undef \/ amount < currentBid + bidIncrement
       THEN /\ sent' = EmitTo(s, "bid:error",
                              [message |-> "BidTooLow", currentBid |-> currentBid])
            /\ UNCHANGED <<onlineBids, now, acceptedBy, submittedBy, ended, failed>>
       ELSE LET bid == NewBid(GetBidder(s), amount, t)
            IN  /\ Len(onlineBids) < MaxQueue
                /\ now' = t
                /\ onlineBids' = Append(onlineBids, bid)
                /\ acceptedBy' = Append(acceptedBy, {})
                /\ submittedBy' = Append(submittedBy, s)
                /\ UNCHANGED <<ended, failed>>
                /\ sent' = EmitTo(s, "bid:confirmed", [bid |-> bid])
                           \o EmitRoom(clerks, "bid:new", bid)

\* t is the value Date.now() returns when the handler reads the clock; `now`
\* is the last value read, and the clock does not run backwards.
BidSubmit(s, amount, t) ==
    /\ t >= now
    /\ UNCHANGED <<isLive, currentLot, currentBid, bidIncrement, registry>>
    /\ IF ~HasBidder(s)
       THEN /\ sent' = EmitTo(s, "bid:error", [message |-> "NotRegistered"])
            /\ UNCHANGED <<onlineBids, now, acceptedBy, submittedBy, ended, failed>>
       ELSE IF ~isLive
       THEN /\ sent' = EmitTo(s, "bid:error", [message |-> "AuctionNotLive"])
            /\ UNCHANGED <<onlineBids, now, acceptedBy, submittedBy, ended, failed>>
       ELSE IF LeqJS(amount, currentBid)
       THEN /\ sent' = EmitTo(s, "bid:error",
                              [message |-> "BidTooLow", currentBid |-> currentBid])
            /\ UNCHANGED <<onlineBids, now, acceptedBy, submittedBy, ended, failed>>
       ELSE LET bid == NewBid(GetBidder(s), amount, t)
            IN  /\ Len(onlineBids) < MaxQueue
                /\ now' = t
                /\ onlineBids' = Append(onlineBids, bid)
                /\ acceptedBy' = Append(acceptedBy, {})
                /\ submittedBy' = Append(submittedBy, s)
                /\ UNCHANGED <<ended, failed>>
                /\ sent' = EmitTo(s, "bid:confirmed", [bid |-> bid])
                           \o EmitRoom(clerks, "bid:new", bid)

\* -------------------------------------------------------- auction control
\* AuctionStart leaving the queue as it is.
AuctionStart_KeepsQueue(s, lot, startingBid, inc) ==
    /\ UNCHANGED <<registry, now>>
    /\ IF s \notin clerks
       THEN /\ sent' = EmitTo(s, "error", [message |-> "Unauthorized"])
            /\ UNCHANGED <<auction, acceptedBy, submittedBy, ended, failed>>
       ELSE /\ isLive' = TRUE
            /\ currentLot' = (IF lot = Undef THEN Null ELSE lot)
            /\ currentBid' = OrDefault(startingBid, 0)
            /\ bidIncrement' = OrDefault(inc, DefaultIncrement)
            /\ sent' = EmitAll("auction:started",
                               [lot |-> currentLot', startingBid |-> currentBid',
                                bidIncrement |-> bidIncrement'])
            /\ ended' = FALSE
            /\ UNCHANGED failed
            /\ UNCHANGED <<onlineBids, acceptedBy, submittedBy>>

AuctionStart(s, lot, startingBid, inc) ==
    /\ UNCHANGED <<registry, now>>
    /\ IF s \notin clerks
       THEN /\ sent' = EmitTo(s, "error", [message |-> "Unauthorized"])
            /\ UNCHANGED <<auction, acceptedBy, submittedBy, ended, failed>>
       ELSE /\ isLive' = TRUE
            /\ currentLot' = (IF lot = Undef THEN Null ELSE lot)
            /\ currentBid' = OrDefault(startingBid, 0)
            /\ bidIncrement' = OrDefault(inc, DefaultIncrement)
            /\ onlineBids' = << >>
            /\ acceptedBy' = << >>
            /\ submittedBy' = << >>
            /\ ended' = FALSE
            /\ UNCHANGED failed
            /\ sent' = EmitAll("auction:started",
                               [lot |-> currentLot', startingBid |-> currentBid',
                                bidIncrement |-> bidIncrement'])

\* AuctionSetLot leaving the queue as it is.
AuctionSetLot_KeepsQueue(s, lot, startingBid) ==
    /\ UNCHANGED <<registry, now>>
    /\ IF s \notin clerks
       THEN /\ sent' = << >>
            /\ UNCHANGED <<auction, acceptedBy, submittedBy, ended, failed>>
       ELSE /\ currentLot' = lot
            /\ currentBid' = OrDefault(startingBid, 0)
            /\ sent' = EmitAll("auction:lotChanged",
                               [lot |-> currentLot', currentBid |-> currentBid'])
            /\ failed' = (lot = Undef)
            /\ UNCHANGED <<isLive, bidIncrement, onlineBids, acceptedBy, submittedBy, ended>>

\* After the broadcast the handler reads data.lot.number for its log line,
\* which throws when the payload has no lot.
AuctionSetLot(s, lot, startingBid) ==
    /\ UNCHANGED <<registry, now>>
    /\ IF s \notin clerks
       THEN /\ sent' = << >>
            /\ UNCHANGED <<auction, acceptedBy, submittedBy, ended, failed>>
       ELSE /\ currentLot' = lot
            /\ currentBid' = OrDefault(startingBid, 0)
            /\ onlineBids' = << >>
            /\ acceptedBy' = << >>
            /\ submittedBy' = << >>
            /\ UNCHANGED ended
            /\ sent' = EmitAll("auction:lotChanged",
                               [lot |-> currentLot', currentBid |-> currentBid'])
            /\ failed' = (lot = Undef)
            /\ UNCHANGED <<isLive, bidIncrement>>

\* AuctionUpdateBid that also rejects the pending bids the new amount has
\* overtaken.
AuctionUpdateBid_RejectsSuperseded(s, amount, source) ==
    /\ UNCHANGED <<registry, now>>
    /\ IF s \notin clerks
       THEN /\ sent' = << >>
            /\ UNCHANGED <<auction, acceptedBy, submittedBy, ended, failed>>
       ELSE /\ currentBid' = amount
            /\ onlineBids' = [i \in 1..Len(onlineBids) |->
                                 IF /\ onlineBids[i].status = "pending"
                                    /\ LeqJS(onlineBids[i].amount, amount)
                                 THEN [onlineBids[i] EXCEPT !.status = "rejected"]
                                 ELSE onlineBids[i]]
            /\ sent' = EmitAll("auction:bidUpdate",
                               [currentBid |-> currentBid',
                                source |-> IF source = "" THEN "floor" ELSE source])
            /\ UNCHANGED <<isLive, currentLot, bidIncrement, acceptedBy, submittedBy, ended, failed>>

AuctionUpdateBid(s, amount, source) ==
    /\ UNCHANGED <<registry, now>>
    /\ IF s \notin clerks
       THEN /\ sent' = << >>
            /\ UNCHANGED <<auction, acceptedBy, submittedBy, ended, failed>>
       ELSE /\ currentBid' = amount
            /\ sent' = EmitAll("auction:bidUpdate",
                               [currentBid |-> currentBid',
                                source |-> IF source = "" THEN "floor" ELSE source])
            /\ UNCHANGED <<isLive, currentLot, bidIncrement, onlineBids, acceptedBy, submittedBy, ended, failed>>

\* BidAccept that also rejects every other pending bid not above the accepted
\* amount.
BidAccept_ResolvesLower(s, bidId) ==
    LET bidIndex == FindIndex(onlineBids, bidId)
    IN  /\ UNCHANGED <<registry, now>>
        /\ IF s \notin clerks \/ bidIndex = 0
           THEN /\ sent' = << >>
                /\ UNCHANGED <<auction, acceptedBy, submittedBy, ended, failed>>
           ELSE LET bid == [onlineBids[bidIndex] EXCEPT !.status = "accepted"]
                    bidderSocket == FindBidderSocket(bidders, bid.bidderId)
                IN  /\ onlineBids' =
                          [k \in 1..Len(onlineBids) |->
                              IF k = bidIndex THEN bid
                              ELSE IF /\ onlineBids[k].status = "pending"
                                      /\ onlineBids[k].amount <= bid.amount
                                   THEN [onlineBids[k] EXCEPT !.status = "rejected"]
                                   ELSE onlineBids[k]]
                    /\ currentBid' = bid.amount
                    /\ acceptedBy' = [acceptedBy EXCEPT ![bidIndex] = @ \cup {s}]
                    /\ sent' = (IF bidderSocket # 0
                                THEN EmitTo(bidderSocket, "bid:accepted", [bid |-> bid])
                                ELSE << >>)
                               \o EmitAll("auction:bidUpdate",
                                          [currentBid |-> currentBid',
                                           source |-> "online",
                                           bidderName |-> bid.bidderName])
                    /\ UNCHANGED <<isLive, currentLot, bidIncrement, submittedBy, ended, failed>>

\* BidAccept never lowering currentBid.
BidAccept_KeepsHigherBid(s, bidId) ==
    LET bidIndex == FindIndex(onlineBids, bidId)
    IN  /\ UNCHANGED <<registry, now>>
        /\ IF s \notin clerks \/ bidIndex = 0
           THEN /\ sent' = << >>
                /\ UNCHANGED <<auction, acceptedBy, submittedBy, ended, failed>>
           ELSE LET bid == [onlineBids[bidIndex] EXCEPT !.status = "accepted"]
                    bidderSocket == FindBidderSocket(bidders, bid.bidderId)
                IN  /\ onlineBids' = [onlineBids EXCEPT ![bidIndex] = bid]
                    /\ currentBid' = (IF bid.amount > currentBid THEN bid.amount
                                     ELSE currentBid)
                    /\ acceptedBy' = [acceptedBy EXCEPT ![bidIndex] = @ \cup {s}]
                    /\ sent' = (IF bidderSocket # 0
                                THEN EmitTo(bidderSocket, "bid:accepted", [bid |-> bid])
                                ELSE << >>)
                               \o EmitAll("auction:bidUpdate",
                                          [currentBid |-> currentBid',
                                           source |-> "online",
                                           bidderName |-> bid.bidderName])
                    /\ UNCHANGED <<isLive, currentLot, bidIncrement, submittedBy, ended, failed>>

\* BidAccept that notifies the connection the bid was submitted on, if it is
\* still there, instead of looking the bidder up by bidderId.
BidAccept_NotifiesSubmitter(s, bidId) ==
    LET bidIndex == FindIndex(onlineBids, bidId)
    IN  /\ UNCHANGED <<registry, now>>
        /\ IF s \notin clerks \/ bidIndex = 0
           THEN /\ sent' = << >>
                /\ UNCHANGED <<auction, acceptedBy, submittedBy, ended, failed>>
           ELSE LET bid == [onlineBids[bidIndex] EXCEPT !.status = "accepted"]
                    bidderSocket == submittedBy[bidIndex]
                IN  /\ onlineBids' = [onlineBids EXCEPT ![bidIndex] = bid]
                    /\ currentBid' = bid.amount
                    /\ acceptedBy' = [acceptedBy EXCEPT ![bidIndex] = @ \cup {s}]
                    /\ sent' = (IF bidderSocket # 0
                                THEN EmitTo(bidderSocket, "bid:accepted", [bid |-> bid])
                                ELSE << >>)
                               \o EmitAll("auction:bidUpdate",
                                          [currentBid |-> currentBid',
                                           source |-> "online",
                                           bidderName |-> bid.bidderName])
                    /\ UNCHANGED <<isLive, currentLot, bidIncrement, submittedBy, ended, failed>>

BidAccept(s, bidId) ==
    LET bidIndex == FindIndex(onlineBids, bidId)
    IN  /\ UNCHANGED <<registry, now>>
        /\ IF s \notin clerks \/ bidIndex = 0
           THEN /\ sent' = << >>
                /\ UNCHANGED <<auction, acceptedBy, submittedBy, ended, failed>>
           ELSE LET bid == [onlineBids[bidIndex] EXCEPT !.status = "accepted"]
                    bidderSocket == FindBidderSocket(bidders, bid.bidderId)
                IN  /\ onlineBids' = [onlineBids EXCEPT ![bidIndex] = bid]
                    /\ currentBid' = bid.amount
                    /\ acceptedBy' = [acceptedBy EXCEPT ![bidIndex] = @ \cup {s}]
                    /\ sent' = (IF bidderSocket # 0
                                THEN EmitTo(bidderSocket, "bid:accepted", [bid |-> bid])
                                ELSE << >>)
                               \o EmitAll("auction:bidUpdate",
                                          [currentBid |-> currentBid',
                                           source |-> "online",
                                           bidderName |-> bid.bidderName])
                    /\ UNCHANGED <<isLive, currentLot, bidIncrement, submittedBy, ended, failed>>

\* The notification of bid:reject for bidId on the queue q: bid:rejected to
\* the first registered connection with the bid's bidderId, if any.
RejectNotice(q, bidId, reason) ==
    LET bidIndex == FindIndex(q, bidId)
    IN  IF bidIndex = 0
        THEN << >>
        ELSE LET bid == [q[bidIndex] EXCEPT !.status = "rejected"]
                 bidderSocket == FindBidderSocket(bidders, bid.bidderId)
             IN  IF bidderSocket # 0
                 THEN EmitTo(bidderSocket, "bid:rejected",
                             [bid |-> bid, reason |-> reason])
                 ELSE << >>

BidReject(s, bidId, reason) ==
    LET bidIndex == FindIndex(onlineBids, bidId)
    IN  /\ UNCHANGED <<registry, now>>
        /\ IF s \notin clerks \/ bidIndex = 0
           THEN /\ sent' = << >>
                /\ UNCHANGED <<auction, acceptedBy, submittedBy, ended, failed>>
           ELSE /\ onlineBids' = [onlineBids EXCEPT ![bidIndex].status = "rejected"]
                /\ sent' = RejectNotice(onlineBids, bidId, reason)
                /\ UNCHANGED <<isLive, currentLot, currentBid, bidIncrement,
                               acceptedBy, submittedBy, ended, failed>>

\* AuctionSold announcing the lot as it is after the lot has been cleared.
AuctionSold_ClearsFirst(s, amount, winner, online) ==
    /\ UNCHANGED <<registry, now>>
    /\ IF s \notin clerks
       THEN /\ sent' = << >>
            /\ UNCHANGED <<auction, acceptedBy, submittedBy, ended, failed>>
       ELSE /\ currentLot' = Null
            /\ currentBid' = 0
            /\ onlineBids' = << >>
            /\ acceptedBy' = << >>
            /\ submittedBy' = << >>
            /\ UNCHANGED <<ended, failed>>
            /\ sent' = EmitAll("auction:lotSold",
                               [lot |-> currentLot', winningBid |-> amount,
                                winner |-> winner, isOnline |-> online])
            /\ UNCHANGED <<isLive, bidIncrement>>

AuctionSold(s, amount, winner, online) ==
    /\ UNCHANGED <<registry, now>>
    /\ IF s \notin clerks
       THEN /\ sent' = << >>
            /\ UNCHANGED <<auction, acceptedBy, submittedBy, ended, failed>>
       ELSE /\ sent' = EmitAll("auction:lotSold",
                               [lot |-> currentLot, winningBid |-> amount,
                                winner |-> winner, isOnline |-> online])
            /\ currentLot' = Null
            /\ currentBid' = 0
            /\ onlineBids' = << >>
            /\ acceptedBy' = << >>
            /\ submittedBy' = << >>
            /\ UNCHANGED <<ended, failed>>
            /\ UNCHANGED <<isLive, bidIncrement>>

\* AuctionEnd leaving the auction live.
AuctionEnd_StaysLive(s) ==
    /\ UNCHANGED <<registry, now>>
    /\ IF s \notin clerks
       THEN /\ sent' = << >>
            /\ UNCHANGED <<auction, acceptedBy, submittedBy, ended, failed>>
       ELSE /\ currentLot' = Null
            /\ currentBid' = 0
            /\ onlineBids' = << >>
            /\ acceptedBy' = << >>
            /\ submittedBy' = << >>
            /\ ended' = TRUE
            /\ UNCHANGED failed
            /\ sent' = EmitAll("auction:ended", [message |-> "ended"])
            /\ UNCHANGED <<isLive, bidIncrement>>

\* AuctionEnd without the clerk check.
AuctionEnd_NoRoleCheck(s) ==
    /\ UNCHANGED <<registry, now>>
    /\ isLive' = FALSE
    /\ currentLot' = Null
    /\ currentBid' = 0
    /\ onlineBids' = << >>
    /\ acceptedBy' = << >>
    /\ submittedBy' = << >>
    /\ ended' = TRUE
    /\ UNCHANGED failed
    /\ sent' = EmitAll("auction:ended", [message |-> "ended"])
    /\ UNCHANGED bidIncrement

\* AuctionEnd leaving the queue as it is.
AuctionEnd_KeepsQueue(s) ==
    /\ UNCHANGED <<registry, now>>
    /\ IF s \notin clerks
       THEN /\ sent' = << >>
            /\ UNCHANGED <<auction, acceptedBy, submittedBy, ended, failed>>
       ELSE /\ isLive' = FALSE
            /\ currentLot' = Null
            /\ currentBid' = 0
            /\ ended' = TRUE
            /\ sent' = EmitAll("auction:ended", [message |-> "ended"])
            /\ UNCHANGED <<bidIncrement, onlineBids, acceptedBy, submittedBy, failed>>

AuctionEnd(s) ==
    /\ UNCHANGED <<registry, now>>
    /\ IF s \notin clerks
       THEN /\ sent' = << >>
            /\ UNCHANGED <<auction, acceptedBy, submittedBy, ended, failed>>
       ELSE /\ isLive' = FALSE
            /\ currentLot' = Null
            /\ currentBid' = 0
            /\ onlineBids' = << >>
            /\ acceptedBy' = << >>
            /\ submittedBy' = << >>
            /\ ended' = TRUE
            /\ UNCHANGED failed
            /\ sent' = EmitAll("auction:ended", [message |-> "ended"])
            /\ UNCHANGED bidIncrement

\* ------------------------------------------------------- checkout (REST)
\* `!x` for a number or a missing field: true of undefined and of 0.
Falsy(x) == x = Undef \/ x = 0

\* buyerName || `Buyer #${buyerNumber}`
WinnerOf(d) ==
    IF d.buyerName = "" THEN "Buyer #" \o ToString(d.buyerNumber) ELSE d.buyerName

\* RecordSale that also closes the current lot, as auction:sold does.
RecordSale_ClosesLot(d) ==
    /\ UNCHANGED <<registry, now, ended, failed, isLive, bidIncrement>>
    /\ IF Falsy(d.lotNumber) \/ Falsy(d.winningBid) \/ Falsy(d.buyerNumber)
       THEN /\ sent' = << >>
            /\ UNCHANGED <<currentLot, currentBid, onlineBids, acceptedBy, submittedBy>>
       ELSE /\ currentLot' = Null
            /\ currentBid' = 0
            /\ onlineBids' = << >>
            /\ acceptedBy' = << >>
            /\ submittedBy' = << >>
            /\ sent' = EmitAll("auction:lotSold",
                               [lotNumber |-> d.lotNumber, winningBid |-> d.winningBid,
                                winner |-> WinnerOf(d), isOnline |-> d.isOnline])

\* POST /record-sale with body d. The route writes the sale into the lot
\* catalogue `lots` of the route module, an array of its own that shares no
\* object with auctionState and is empty when the server starts; the
\* catalogue's routes are outside this model, so the write finds no lot.
RecordSale(d) ==
    /\ UNCHANGED <<auction, registry, now, acceptedBy, submittedBy, ended, failed>>
    /\ IF Falsy(d.lotNumber) \/ Falsy(d.winningBid) \/ Falsy(d.buyerNumber)
       THEN sent' = << >>
       ELSE sent' = EmitAll("auction:lotSold",
                            [lotNumber |-> d.lotNumber, winningBid |-> d.winningBid,
                             winner |-> WinnerOf(d), isOnline |-> d.isOnline])

\* ------------------------------------------------------------------- next
\* A connection registers or goes away.
Connect ==
    \/ \E s \in Sockets, id \in Identities : RegisterBidder(s, id)
    \/ \E s \in Sockets : RegisterClerk(s)
    \/ \E s \in Sockets : Disconnect(s)

\* A bidding or auction-control command arrives on socket s and its handler
\* runs to completion.
Command ==
    \/ \E s \in Sockets, a \in Amounts, t \in Clock : BidSubmit(s, a, t)
    \/ \E s \in Sockets, d \in StartPayloads :
          AuctionStart(s, d.lot, d.startingBid, d.bidIncrement)
    \/ \E s \in Sockets, d \in SetLotPayloads : AuctionSetLot(s, d.lot, d.startingBid)
    \/ \E s \in Sockets, d \in UpdateBidPayloads : AuctionUpdateBid(s, d.amount, d.source)
    \/ \E s \in Sockets, b \in BidIds : BidAccept(s, b)
    \/ \E s \in Sockets, b \in BidIds, r \in Reasons : BidReject(s, b, r)
    \/ \E s \in Sockets, d \in SoldPayloads : AuctionSold(s, d.amount, d.winner, d.isOnline)
    \/ \E s \in Sockets : AuctionEnd(s)

\* Before the auction's first command each connection registers at most once.
Boot ==
    \E s \in Sockets :
        /\ ~HasBidder(s)
        /\ s \notin clerks
        /\ \/ \E id \in Identities : RegisterBidder(s, id)
           \/ RegisterClerk(s)

\* After the connections' first registrations, at most MaxCommands commands
\* of any kind are handled.
Next ==
    \/ /\ handled = 0
       /\ Boot
       /\ UNCHANGED handled
    \/ /\ handled < MaxCommands
       /\ handled' = handled + 1
       /\ Command
    \/ /\ handled < MaxCommands
       /\ handled' = handled + 1
       /\ Connect

Spec == Init /\ [][Next]_vars

\* The engine together with the checkout flow's POST /record-sale requests.
NextCheckout ==
    \/ /\ handled = 0
       /\ Boot
       /\ UNCHANGED handled
    \/ /\ handled < MaxCommands
       /\ handled' = handled + 1
       /\ Command
    \/ /\ handled < MaxCommands
       /\ handled' = handled + 1
       /\ Connect
    \/ /\ handled < MaxCommands
       /\ handled' = handled + 1
       /\ \E d \in RecordSalePayloads : RecordSale(d)

SpecCheckout == Init /\ [][NextCheckout]_vars

\* The commands of a bidder who loses the connection and comes back while a
\* bid waits: start, submit, disconnect, register, accept, reject.
ReconnectCommand ==
    \/ \E s \in Sockets, d \in StartPayloads :
          AuctionStart(s, d.lot, d.startingBid, d.bidIncrement)
    \/ \E s \in Sockets, a \in Amounts, t \in Clock : BidSubmit(s, a, t)
    \/ \E s \in Sockets : Disconnect(s)
    \/ \E s \in Sockets, id \in Identities : RegisterBidder(s, id)
    \/ \E s \in Sockets, b \in BidIds : BidAccept(s, b)
    \/ \E s \in Sockets, b \in BidIds, r \in Reasons : BidReject(s, b, r)

\* The engine handling up to MaxReconnect of those commands.
NextReconnect ==
    \/ /\ handled = 0
       /\ Boot
       /\ UNCHANGED handled
    \/ /\ handled < MaxReconnect
       /\ handled' = handled + 1
       /\ ReconnectCommand

SpecReconnect == Init /\ [][NextReconnect]_vars

\* A command arrives on socket s whose payload lacks a required field: a
\* bid:submit or auction:updateBid with no amount, an auction:setLot with no
\* lot, a registration with no payload at all.
MalformedCommand(s) ==
    \/ \E t \in Clock : BidSubmit(s, Undef, t)
    \/ \E d \in SetLotPayloadsWithoutLot : AuctionSetLot(s, d.lot, d.startingBid)
    \/ \E d \in UpdateBidPayloads : AuctionUpdateBid(s, Undef, d.source)
    \/ RegisterBidderWithoutData(s)
    \/ RegisterClerkWithoutData(s)

\* The engine with well-formed and malformed commands alike; once a handler
\* has thrown, the process is gone and handles nothing more.
NextMalformed ==
    \/ /\ ~failed
       /\ handled = 0
       /\ Boot
       /\ UNCHANGED handled
    \/ /\ ~failed
       /\ handled < MaxCommands
       /\ handled' = handled + 1
       /\ Command
    \/ /\ ~failed
       /\ handled < MaxCommands
       /\ handled' = handled + 1
       /\ Connect
    \/ /\ ~failed
       /\ handled < MaxCommands
       /\ handled' = handled + 1
       /\ \E s \in Sockets : MalformedCommand(s)

SpecMalformed == Init /\ [][NextMalformed]_vars

\* =================================================================== claims
\* The events of the last handler that carry event name e.
SentEvents(e) == { i \in 1..Len(sent) : sent[i].event = e }

\* Some bid:accept on the bid that bidId resolves to has succeeded.
AlreadyAccepted(bidId) ==
    /\ FindIndex(onlineBids, bidId) # 0
    /\ acceptedBy[FindIndex(onlineBids, bidId)] # {}

\* The step is a clerk-privileged command sent on socket s.
ClerkCommand(s) ==
    \/ \E d \in StartPayloads : AuctionStart(s, d.lot, d.startingBid, d.bidIncrement)
    \/ \E d \in SetLotPayloads : AuctionSetLot(s, d.lot, d.startingBid)
    \/ \E d \in UpdateBidPayloads : AuctionUpdateBid(s, d.amount, d.source)
    \/ \E b \in BidIds : BidAccept(s, b)
    \/ \E b \in BidIds, r \in Reasons : BidReject(s, b, r)
    \/ \E d \in SoldPayloads : AuctionSold(s, d.amount, d.winner, d.isOnline)
    \/ AuctionEnd(s)

\* The step is one of the commands that never change the lot.
LotKeepingCommand ==
    \/ \E s \in Sockets, a \in Amounts, t \in Clock : BidSubmit(s, a, t)
    \/ \E s \in Sockets, b \in BidIds : BidAccept(s, b)
    \/ \E s \in Sockets, b \in BidIds, r \in Reasons : BidReject(s, b, r)
    \/ \E s \in Sockets, d \in UpdateBidPayloads : AuctionUpdateBid(s, d.amount, d.source)
    \/ Connect

\* C1: once a bid:accept on a bid id has succeeded, a further bid:accept or
\* bid:reject naming that id is NotFound: it changes neither currentBid nor
\* any queued bid and emits no event.
C1_ResolvedBidIsNotFound ==
    [][ \A s \in Sockets, b \in BidIds :
          ( /\ AlreadyAccepted(b)
            /\ (BidAccept(s, b) \/ \E r \in Reasons : BidReject(s, b, r)) )
          => (UNCHANGED <<currentBid, onlineBids>> /\ sent' = << >>) ]_vars

\* C2: when two clerk connections race to bid:accept the same bid, at most
\* one succeeds: once one clerk's bid:accept on a bid has succeeded, the
\* lookup made by another clerk's bid:accept for that id finds nothing.
C2_LosingClerkFindsNothing ==
    \A i \in 1..Len(onlineBids) :
        \A winner \in acceptedBy[i] :
            \A loser \in clerks \ {winner} :
                FindIndex(onlineBids, onlineBids[i].id) = 0

\* C3: every bid held in the queue has status pending; an accepted or
\* rejected bid is no longer in the queue.
C3_QueueHoldsOnlyPending ==
    \A i \in 1..Len(onlineBids) : onlineBids[i].status = "pending"

\* C4: a bid whose status is accepted or rejected is never changed again by
\* a bid:accept or bid:reject command.
C4_TerminalStatusIsFinal ==
    [][ ( \E s \in Sockets, b \in BidIds :
             BidAccept(s, b) \/ \E r \in Reasons : BidReject(s, b, r) )
        => \A i \in 1..Len(onlineBids) :
              onlineBids[i].status # "pending"
              => (i <= Len(onlineBids') /\ onlineBids'[i] = onlineBids[i]) ]_vars

\* C5: while a lot is active, a command that does not change the lot never
\* lowers currentBid.
C5_CurrentBidNeverDecreases ==
    [][ (currentLot # Null /\ LotKeepingCommand) => currentBid' >= currentBid ]_vars

\* C6: a clerk-privileged command from a connection that is not registered
\* as clerk leaves isLive, currentLot, currentBid, bidIncrement and the queue
\* unchanged and delivers no event to any connection but the sender.
C6_NonClerkCommandHasNoEffect ==
    [][ \A s \in Sockets :
          (s \notin clerks /\ ClerkCommand(s))
          => ( /\ UNCHANGED auction
               /\ \A i \in 1..Len(sent') : sent'[i].to = s ) ]_vars

\* C6 witness: a socket that is not a clerk has just been refused while the
\* auction is live with a bid queued.
C6_Witness ==
    \E s \in Sockets :
        /\ s \notin clerks
        /\ sent = EmitTo(s, "error", [message |-> "Unauthorized"])
        /\ isLive
        /\ onlineBids # << >>

\* C7: each of the seven clerk-privileged commands, sent by a connection that
\* fails the clerk check, returns an authorization-denied signal to that
\* sender and to nobody else.
C7_NonClerkGetsDenial ==
    [][ \A s \in Sockets :
          (s \notin clerks /\ ClerkCommand(s))
          => sent' = EmitTo(s, "error", [message |-> "Unauthorized"]) ]_vars

\* C8 as stated: every bid:submit from a registered bidder with
\* amount <= currentBid leaves currentBid and the queue unchanged and
\* returns BidTooLow to the sender only.
C8_LowBidIsBidTooLow ==
    [][ \A s \in Sockets, a \in Amounts, t \in Clock :
          (HasBidder(s) /\ a <= currentBid /\ BidSubmit(s, a, t))
          => ( /\ UNCHANGED <<currentBid, onlineBids>>
               /\ sent' = EmitTo(s, "bid:error",
                                 [message |-> "BidTooLow", currentBid |-> currentBid]) ) ]_vars

\* C8 amended: every bid:submit from a registered bidder with
\* amount <= currentBid leaves currentBid and the queue unchanged, and while
\* the auction is live it returns BidTooLow to the sender only.
C8_LowBidIsBidTooLowWhileLive ==
    [][ \A s \in Sockets, a \in Amounts, t \in Clock :
          (HasBidder(s) /\ a <= currentBid /\ BidSubmit(s, a, t))
          => ( /\ UNCHANGED <<currentBid, onlineBids>>
               /\ isLive => sent' = EmitTo(s, "bid:error",
                                           [message |-> "BidTooLow",
                                            currentBid |-> currentBid]) ) ]_vars

\* C8 witness: a registered bidder has just been told BidTooLow, for a bid
\* equal to a non-zero currentBid, during a live auction.
C8_Witness ==
    \E s \in Sockets :
        /\ HasBidder(s)
        /\ isLive
        /\ currentBid > 0
        /\ sent = EmitTo(s, "bid:error",
                         [message |-> "BidTooLow", currentBid |-> currentBid])

\* C9: bid:submit from a connection without the bidder role fails with
\* NotRegistered, and from a registered bidder while the auction is not live
\* with AuctionNotLive, whatever the amount; either way one bid:error goes to
\* the sender only and the auction state and the registry are unchanged.
C9_SubmitErrorsInOrder ==
    [][ \A s \in Sockets :
          /\ ~HasBidder(s)
             => \A a \in Amounts, t \in Clock :
                   BidSubmit(s, a, t)
                   => ( /\ sent' = EmitTo(s, "bid:error", [message |-> "NotRegistered"])
                        /\ UNCHANGED <<auction, registry>> )
          /\ (HasBidder(s) /\ ~isLive)
             => \A a \in Amounts, t \in Clock :
                   BidSubmit(s, a, t)
                   => ( /\ sent' = EmitTo(s, "bid:error", [message |-> "AuctionNotLive"])
                        /\ UNCHANGED <<auction, registry>> ) ]_vars

\* C9 witness: a connection that is not a bidder has just been told
\* NotRegistered while the auction is not live and another connection is a
\* registered bidder.
C9_Witness ==
    \E s \in Sockets :
        /\ ~HasBidder(s)
        /\ ~isLive
        /\ bidders # << >>
        /\ sent = EmitTo(s, "bid:error", [message |-> "NotRegistered"])

\* C10: a bid:submit from a registered bidder with amount > currentBid during
\* a live auction appends exactly one pending bid with that amount; a clerk
\* registering afterwards is sent the queue with that bid in it, and a bidder
\* registering afterwards is sent a snapshot without the queue.
C10_PendingBidSeenByClerksOnly ==
    [][ /\ \A s \in Sockets, a \in Amounts, t \in Clock :
             (HasBidder(s) /\ isLive /\ a > currentBid /\ BidSubmit(s, a, t))
             => ( /\ Len(onlineBids') = Len(onlineBids) + 1
                  /\ SubSeq(onlineBids', 1, Len(onlineBids)) = onlineBids
                  /\ onlineBids'[Len(onlineBids')].amount = a
                  /\ onlineBids'[Len(onlineBids')].status = "pending" )
        /\ \A s \in Sockets :
             RegisterClerk(s)
             => ( /\ Len(sent') = 1
                  /\ sent'[1].to = s
                  /\ sent'[1].event = "auction:fullState"
                  /\ sent'[1].data.onlineBids = onlineBids )
        /\ \A s \in Sockets, id \in Identities :
             RegisterBidder(s, id)
             => ( /\ sent'[1].to = s
                  /\ sent'[1].event = "auction:state"
                  /\ DOMAIN sent'[1].data =
                       {"isLive", "currentLot", "currentBid", "bidIncrement", "onlineBidders"}
                  /\ \A i \in 2..Len(sent') : sent'[i].event = "bidders:count" ) ]_vars

\* C10 witness: a clerk has just been sent a snapshot whose queue holds a
\* pending bid above currentBid.
C10_Witness ==
    \E i \in SentEvents("auction:fullState") :
        \E j \in 1..Len(sent[i].data.onlineBids) :
            /\ sent[i].data.onlineBids[j].status = "pending"
            /\ sent[i].data.onlineBids[j].amount > sent[i].data.currentBid

\* The events of the last handler delivered to socket c.
SentTo(c) == { i \in 1..Len(sent) : sent[i].to = c }

\* C11: a successful bid:submit emits bid:confirmed once, to the submitting
\* connection, and bid:new once to every connection registered as clerk,
\* both carrying the queued bid, and nothing else: a connection that is not
\* the submitter and not a clerk receives no event.
C11_SubmitNotifiesSenderAndClerks ==
    [][ \A s \in Sockets :
          (HasBidder(s) /\ isLive)
          => \A a \in Amounts, t \in Clock :
               (a > currentBid /\ BidSubmit(s, a, t))
               => ( /\ Cardinality(SentEvents("bid:confirmed")') = 1
                    /\ \A i \in SentEvents("bid:confirmed")' : sent'[i].to = s
                    /\ \A c \in Sockets :
                         Cardinality(SentEvents("bid:new")' \cap SentTo(c)') =
                             (IF c \in clerks THEN 1 ELSE 0)
                    /\ \A i \in SentEvents("bid:confirmed")' :
                         sent'[i].data.bid = onlineBids'[Len(onlineBids')]
                    /\ \A i \in SentEvents("bid:new")' :
                         sent'[i].data = onlineBids'[Len(onlineBids')]
                    /\ \A i \in 1..Len(sent') :
                         sent'[i].event \in {"bid:confirmed", "bid:new"}
                    /\ \A c \in Sockets \ (clerks \cup {s}) : SentTo(c)' = {} ) ]_vars

\* C11 witness: a bid has just been confirmed to its submitter and announced
\* to a clerk while another connection, registered as bidder only, got nothing.
C11_Witness ==
    /\ SentEvents("bid:confirmed") # {}
    /\ SentEvents("bid:new") # {}
    /\ \E c \in Sockets :
         /\ HasBidder(c)
         /\ c \notin clerks
         /\ SentTo(c) = {}

\* The sockets registered as bidder under bidderId.
SocketsOf(bidderId) ==
    { bidders[k].sock : k \in { n \in 1..Len(bidders) : bidders[n].bidderId = bidderId } }

\* C12: a bid:accept by a clerk that resolves to a pending bid sets currentBid
\* to that bid's amount and sends every connected client one auction:bidUpdate
\* with currentBid equal to that amount, source 'online' and the bidder's
\* name; when the bid's bidder is connected, bid:accepted carrying the bid
\* goes to a connection of that bidder.
C12_AcceptSetsAndBroadcastsBid ==
    [][ \A s \in clerks, b \in BidIds :
          LET i == FindIndex(onlineBids, b)
          IN  ( /\ i # 0
                /\ onlineBids[i].status = "pending"
                /\ BidAccept(s, b) )
              => ( /\ currentBid' = onlineBids[i].amount
                   /\ \A c \in Sockets :
                        /\ Cardinality(SentEvents("auction:bidUpdate")' \cap SentTo(c)') = 1
                        /\ \A j \in SentEvents("auction:bidUpdate")' \cap SentTo(c)' :
                             sent'[j].data = [currentBid |-> onlineBids[i].amount,
                                              source     |-> "online",
                                              bidderName |-> onlineBids[i].bidderName]
                   /\ SocketsOf(onlineBids[i].bidderId) # {}
                      => \E j \in SentEvents("bid:accepted")' :
                            /\ sent'[j].to \in SocketsOf(onlineBids[i].bidderId)
                            /\ sent'[j].data.bid =
                                 [onlineBids[i] EXCEPT !.status = "accepted"] ) ]_vars

\* C12 witness: a bid accepted once has just been announced to its bidder and
\* broadcast with source 'online', and its amount is the current bid.
C12_Witness ==
    \E i \in 1..Len(onlineBids) :
        /\ onlineBids[i].status = "accepted"
        /\ Cardinality(acceptedBy[i]) = 1
        /\ currentBid = onlineBids[i].amount
        /\ \E j \in SentEvents("bid:accepted") : sent[j].data.bid = onlineBids[i]
        /\ \E j \in SentEvents("auction:bidUpdate") :
              sent[j].data.source = "online" /\ sent[j].data.currentBid = currentBid

\* The bid:accepted and bid:rejected events of the last handler.
Resolutions == SentEvents("bid:accepted") \cup SentEvents("bid:rejected")

\* C13: the bid:accepted / bid:rejected notification of a resolved bid goes
\* to the connection the bid was submitted on, while it is connected, and to
\* no other connection.
C13_ResolutionGoesToSubmitter ==
    [][ \A s \in clerks, b \in BidIds :
          LET i == FindIndex(onlineBids, b)
          IN  ( /\ i # 0
                /\ (BidAccept(s, b) \/ \E r \in Reasons : BidReject(s, b, r)) )
              => ( /\ \A j \in Resolutions' : sent'[j].to = submittedBy[i]
                   /\ submittedBy[i] # 0 => Resolutions' # {} ) ]_vars

\* The queue q without its i-th bid.
RemoveAt(q, i) == SubSeq(q, 1, i - 1) \o SubSeq(q, i + 1, Len(q))

\* C14: a bid:reject by a clerk that resolves to a pending bid removes the bid
\* from the queue, leaves currentBid, currentLot and isLive unchanged, and
\* emits nothing but bid:rejected, carrying the bid with status rejected and
\* the reason, to a connection of the bid's bidder.
C14_RejectRemovesAndTellsBidderOnly ==
    [][ \A s \in clerks, b \in BidIds, r \in Reasons :
          LET i == FindIndex(onlineBids, b)
          IN  ( /\ i # 0
                /\ onlineBids[i].status = "pending"
                /\ BidReject(s, b, r) )
              => ( /\ onlineBids' = RemoveAt(onlineBids, i)
                   /\ UNCHANGED <<currentBid, currentLot, isLive>>
                   /\ \A j \in 1..Len(sent') :
                        /\ sent'[j].event = "bid:rejected"
                        /\ sent'[j].to \in SocketsOf(onlineBids[i].bidderId)
                        /\ sent'[j].data =
                             [bid    |-> [onlineBids[i] EXCEPT !.status = "rejected"],
                              reason |-> r] ) ]_vars

\* How many bids of the queue q, position i not counted, equal the record r.
CopiesOf(q, r, i) == Cardinality({ k \in 1..Len(q) : k # i /\ q[k] = r })

\* C15: a bid:accept or bid:reject that resolves to a pending bid resolves no
\* other bid: every other bid that was pending is still in the queue with
\* status pending and the same fields, also when its amount is not above
\* the new currentBid.
C15_OtherPendingBidsStayPending ==
    [][ \A s \in clerks, b \in BidIds :
          LET i == FindIndex(onlineBids, b)
          IN  ( /\ i # 0
                /\ onlineBids[i].status = "pending"
                /\ (BidAccept(s, b) \/ \E r \in Reasons : BidReject(s, b, r)) )
              => \A k \in 1..Len(onlineBids) :
                    (k # i /\ onlineBids[k].status = "pending")
                    => CopiesOf(onlineBids', onlineBids[k], 0)
                         >= CopiesOf(onlineBids, onlineBids[k], i) ]_vars

\* C15 witness: a bid has just been accepted while another bid, whose amount
\* is not above the new currentBid, is still pending in the queue.
C15_Witness ==
    /\ SentEvents("auction:bidUpdate") # {}
    /\ \E i, k \in 1..Len(onlineBids) :
         /\ onlineBids[i].status = "accepted"
         /\ currentBid = onlineBids[i].amount
         /\ onlineBids[k].status = "pending"
         /\ onlineBids[k].amount <= currentBid

\* In the events m, every connected client is sent event e with payload d,
\* once.
Broadcast(m, e, d) ==
    \A c \in Sockets :
        \E j \in 1..Len(m) :
            /\ m[j] = Msg(c, e, d)
            /\ \A k \in 1..Len(m) : (m[k].to = c /\ m[k].event = e) => k = j

\* C16: auction:setLot from a clerk leaves the queue empty whatever it held,
\* sets currentLot to the given lot and currentBid to the given startingBid
\* (0 when none is given), and sends auction:lotChanged with that lot and
\* that currentBid to every connected client.
C16_SetLotEmptiesQueue ==
    [][ \A s \in clerks, d \in SetLotPayloads :
          AuctionSetLot(s, d.lot, d.startingBid)
          => LET bid == IF d.startingBid = Undef THEN 0 ELSE d.startingBid
             IN  /\ onlineBids' = << >>
                 /\ currentLot' = d.lot
                 /\ currentBid' = bid
                 /\ Broadcast(sent', "auction:lotChanged",
                              [lot |-> d.lot, currentBid |-> bid]) ]_vars

\* C16 witness: with a clerk and a bidder connected, the third command
\* handled, after auction:start and a bid queued at clock 2, was an
\* auction:setLot to lot 2: the queue is empty again.
C16_Witness ==
    /\ handled = 3
    /\ now = 2
    /\ isLive
    /\ onlineBids = << >>
    /\ currentLot = 2
    /\ SentEvents("auction:lotChanged") # {}

C18_SoldAnnouncesThenClearsLot ==
    [][ \A s \in clerks, d \in SoldPayloads :
          AuctionSold(s, d.amount, d.winner, d.isOnline)
          => ( /\ Broadcast(sent', "auction:lotSold",
                            [lot |-> currentLot, winningBid |-> d.amount,
                             winner |-> d.winner, isOnline |-> d.isOnline])
               /\ currentLot' = Null
               /\ currentBid' = 0
               /\ onlineBids' = << >>
               /\ UNCHANGED isLive ) ]_vars

\* C18 witness: during a live auction a lot has just been announced as sold,
\* and no lot is current any more.
C18_Witness ==
    /\ isLive
    /\ currentLot = Null
    /\ currentBid = 0
    /\ \E j \in SentEvents("auction:lotSold") : sent[j].data.lot # Null

\* auction:end from a clerk sets isLive to false, currentLot to null,
\* currentBid to 0, empties the queue and sends auction:ended to every
\* connected client; and only a clerk's auction:start makes the auction
\* live again.
EndClosesAuction ==
    /\ \A s \in clerks :
         AuctionEnd(s)
         => ( /\ isLive' = FALSE
              /\ currentLot' = Null
              /\ currentBid' = 0
              /\ onlineBids' = << >>
              /\ Broadcast(sent', "auction:ended", [message |-> "ended"]) )
    /\ (ended /\ isLive')
       => \E s \in clerks, d \in StartPayloads :
             AuctionStart(s, d.lot, d.startingBid, d.bidIncrement)

\* C19 as stated: auction:end from a clerk closes the auction and announces
\* it, and from then until the next auction:start every bid:submit fails
\* with AuctionNotLive.
C19_EndStopsEverySubmit ==
    [][ /\ EndClosesAuction
        /\ ended
           => \A s \in Sockets, a \in Amounts, t \in Clock :
                 BidSubmit(s, a, t)
                 => ( /\ sent' = EmitTo(s, "bid:error", [message |-> "AuctionNotLive"])
                      /\ UNCHANGED auction ) ]_vars

\* C19 amended: auction:end from a clerk closes the auction and announces it,
\* and from then until the next auction:start every bid:submit fails: with
\* AuctionNotLive from a registered bidder, with NotRegistered from any other
\* connection.
C19_EndStopsBidding ==
    [][ /\ EndClosesAuction
        /\ ended
           => \A s \in Sockets, a \in Amounts, t \in Clock :
                 BidSubmit(s, a, t)
                 => ( /\ sent' = EmitTo(s, "bid:error",
                                        [message |-> IF HasBidder(s) THEN "AuctionNotLive"
                                                     ELSE "NotRegistered"])
                      /\ UNCHANGED auction ) ]_vars

\* C19 witness: after an auction:end, a registered bidder's bid has just
\* failed with AuctionNotLive.
C19_Witness ==
    /\ ended
    /\ \E s \in Sockets :
         /\ HasBidder(s)
         /\ sent = EmitTo(s, "bid:error", [message |-> "AuctionNotLive"])

\* The events of m delivered to socket c, in order.
EventsTo(m, c) == SelectSeq(m, LAMBDA e : e.to = c)

\* The queue q without the bids at the positions D.
Without(q, D) ==
    LET keep == SeqOfSet((1..Len(q)) \ D)
    IN  [k \in 1..Len(keep) |-> q[keep[k]]]

\* The positions of the queue that hold bids of bidders other than the one
\* registered on socket c.
OthersBids(c) ==
    { i \in 1..Len(onlineBids) : onlineBids[i].bidderId # GetBidder(c).bidderId }

\* C20: a connection that is bidder only never observes the bids queued by
\* other bidders: its auction:state snapshot has no queue, and as long as no
\* queued bid has been resolved, every bid:reject a clerk can send delivers
\* the same events to it whether or not pending bids of other bidders are in
\* the queue.
C20_BidderViewIgnoresOthersBids ==
    /\ "onlineBids" \notin DOMAIN getPublicAuctionState
    /\ \A c \in BidderSockets \ clerks :
         ( /\ clerks # {}
           /\ \A i \in 1..Len(onlineBids) : onlineBids[i].status = "pending" )
         => \A D \in SUBSET OthersBids(c), b \in BidIds, r \in Reasons :
               EventsTo(RejectNotice(onlineBids, b, r), c)
                 = EventsTo(RejectNotice(Without(onlineBids, D), b, r), c)

\* C21: the auction:fullState snapshot sent to a newly registered clerk
\* lists only bids whose status is pending, and carries the current bidder
\* and clerk counts, the clerk count including the new clerk.
C21_ClerkSnapshotListsPendingOnly ==
    \A j \in SentEvents("auction:fullState") :
        /\ sent[j].to \in clerks
        /\ sent[j].data.connectedClients =
             [bidders |-> Len(bidders), clerks |-> Cardinality(clerks)]
        /\ \A i \in 1..Len(sent[j].data.onlineBids) :
             sent[j].data.onlineBids[i].status = "pending"

\* C22: the disconnect of a connection registered as bidder lowers the bidder
\* count by exactly one, sends bidders:count with the new count once to every
\* clerk that stays connected, and leaves the queue as it is; the disconnect
\* of a connection that holds no role changes nothing and emits nothing.
C22_BidderDisconnectCountsOnce ==
    [][ \A s \in Sockets :
          Disconnect(s)
          => ( /\ HasBidder(s)
                  => ( /\ connectedClients'.bidders = connectedClients.bidders - 1
                       /\ Len(sent') = Cardinality(clerks \ {s})
                       /\ \A c \in clerks \ {s} :
                            \E j \in 1..Len(sent') :
                               sent'[j] = Msg(c, "bidders:count",
                                              connectedClients.bidders - 1)
                       /\ onlineBids' = onlineBids )
               /\ (~HasBidder(s) /\ s \notin clerks)
                  => ( /\ UNCHANGED <<auction, registry>>
                       /\ sent' = << >> ) ) ]_vars

\* C22 witness: a bidder's connection has gone, a clerk has just been sent
\* the lower count, and the bid that bidder submitted is still pending.
C22_Witness ==
    /\ \E j \in SentEvents("bidders:count") :
          sent[j].data = Len(bidders) /\ sent[j].to \in clerks
    /\ \E i \in 1..Len(onlineBids) :
          /\ submittedBy[i] = 0
          /\ onlineBids[i].status = "pending"
          /\ SocketsOf(onlineBids[i].bidderId) = {}

\* C23: a disconnect or a registration of any connection, the last
\* connected clerk included, leaves isLive, currentLot, currentBid,
\* bidIncrement and the queue unchanged.
C23_ConnectionsKeepAuctionState ==
    [][ UNCHANGED auction \/ ~Connect ]_vars

\* C23 witness: during a live auction with a bid queued and a lot current,
\* the last clerk has disconnected.
C23_Witness ==
    /\ clerks = {}
    /\ connectedClients.clerks = 0
    /\ isLive
    /\ currentLot # Null
    /\ onlineBids # << >>

\* C24: a connection holds one role: no connection is in the bidder registry
\* and in the clerk registry at once.
C24_OneRolePerConnection ==
    BidderSockets \cap clerks = {}

\* C25: a register:bidder repeated on a connection with the same identity,
\* or a register:clerk repeated on a connection, leaves both registries and
\* both connected counts as they were after the first registration.
C25_RegistrationIsIdempotent ==
    [][ \A s \in Sockets :
          /\ HasBidder(s)
             => \A id \in Identities :
                   ( /\ GetBidder(s).bidderId = id.bidderId
                     /\ GetBidder(s).name = id.name
                     /\ RegisterBidder(s, id) )
                   => UNCHANGED registry
          /\ (s \in clerks /\ RegisterClerk(s)) => UNCHANGED registry ]_vars

\* C25 witness: the only command handled since the connections first
\* registered was a register:bidder on the connection whose entry is the
\* older of the two in the registry: there are still two entries, and the
\* count is 2.
C25_Witness ==
    /\ handled = 1
    /\ Len(bidders) = 2
    /\ connectedClients.bidders = 2
    /\ \E j \in SentEvents("auction:state") : sent[j].to = bidders[1].sock

\* C26: bid ids are unique: no two bids in the queue have the same id.
C26_BidIdsAreUnique ==
    \A i, j \in 1..Len(onlineBids) :
        i # j => onlineBids[i].id # onlineBids[j].id

\* C27: a bid that has been accepted or rejected is retained: no later
\* command deletes its record or overwrites it.
C27_ResolvedBidsAreRetained ==
    [][ \A i \in 1..Len(onlineBids) :
          onlineBids[i].status # "pending"
          => \E j \in 1..Len(onlineBids') : onlineBids'[j] = onlineBids[i] ]_vars

\* The queue q2 holds the bids of q1 in the same order, up to their status.
SameOrder(q1, q2) ==
    /\ Len(q2) = Len(q1)
    /\ \A i \in 1..Len(q1) : [q2[i] EXCEPT !.status = q1[i].status] = q1[i]

\* C29: the queue is ordered by arrival: every step either leaves the bids
\* of the queue in their order, or appends one bid at the tail, the step
\* being a bid:submit, or empties the queue; so the timestamps of the queue
\* never decrease from head to tail.
C29_QueueKeepsArrivalOrder ==
    [][ /\ \/ SameOrder(onlineBids, onlineBids')
           \/ onlineBids' = << >>
           \/ /\ Len(onlineBids') = Len(onlineBids) + 1
              /\ SubSeq(onlineBids', 1, Len(onlineBids)) = onlineBids
              /\ \E s \in Sockets, a \in Amounts, t \in Clock : BidSubmit(s, a, t)
        /\ \A i, j \in 1..Len(onlineBids') :
              i < j => onlineBids'[i].timestamp <= onlineBids'[j].timestamp ]_vars

\* C29 witness: the queue holds two bids, the one submitted at clock 1
\* before the one submitted at clock 2.
C29_Witness ==
    /\ Len(onlineBids) = 2
    /\ onlineBids[1].timestamp = 1
    /\ onlineBids[2].timestamp = 2
    /\ SentEvents("bid:confirmed") # {}

\* C28: a command whose payload lacks a required field leaves the auction
\* state and the registry unchanged, emits nothing to any other connection,
\* and does not make the engine fail.
C28_MalformedCommandIsHarmless ==
    [][ \A s \in Sockets :
            MalformedCommand(s) =>
                /\ UNCHANGED <<auction, registry>>
                /\ \A j \in 1..Len(sent') : sent'[j].to = s
                /\ ~failed' ]_vars

\* The three required fields of a record-sale body are all given.
RequiredPresent(d) ==
    d.lotNumber # Undef /\ d.winningBid # Undef /\ d.buyerNumber # Undef

\* C30: POST /record-sale with lotNumber, winningBid and buyerNumber present
\* sends exactly one auction:lotSold to every connected client and leaves
\* isLive, currentLot, currentBid and the queue as they were; with a required
\* field missing it sends nothing.
C30_RecordSaleBroadcastsWhenPresent ==
    [][ \A d \in RecordSalePayloads :
          RecordSale(d)
          => /\ UNCHANGED auction
             /\ IF RequiredPresent(d)
                THEN Broadcast(sent', "auction:lotSold",
                               [lotNumber |-> d.lotNumber, winningBid |-> d.winningBid,
                                winner |-> WinnerOf(d), isOnline |-> d.isOnline])
                ELSE sent' = << >> ]_vars

\* C30 amended: POST /record-sale never changes the auction state or the
\* registry. When lotNumber, winningBid and buyerNumber are all given and none
\* is 0 it sends exactly one auction:lotSold, carrying lotNumber, winningBid,
\* the winner's name (or "Buyer #<buyerNumber>") and isOnline, to every
\* connected client and nothing else; when one of the three is missing or 0
\* it sends nothing.
C30_RecordSaleOnlyBroadcasts ==
    [][ \A d \in RecordSalePayloads :
          RecordSale(d)
          => /\ UNCHANGED <<auction, registry>>
             /\ IF ~(Falsy(d.lotNumber) \/ Falsy(d.winningBid) \/ Falsy(d.buyerNumber))
                THEN /\ Broadcast(sent', "auction:lotSold",
                                  [lotNumber |-> d.lotNumber, winningBid |-> d.winningBid,
                                   winner |-> WinnerOf(d), isOnline |-> d.isOnline])
                     /\ Len(sent') = Cardinality(Sockets)
                ELSE sent' = << >> ]_vars

\* A sale has just been recorded for an unnamed buyer while a lot is open and
\* a bid is waiting, and the broadcast went to a bidder and to a clerk.
C30_Witness ==
    /\ isLive /\ currentLot # Null /\ onlineBids # << >>
    /\ \E b \in BidderSockets, c \in clerks :
          /\ b # c
          /\ \A x \in {b, c} :
                \E j \in 1..Len(sent) :
                    /\ sent[j].to = x
                    /\ sent[j].event = "auction:lotSold"
                    /\ sent[j].data = [lotNumber |-> 1, winningBid |-> 2,
                                       winner |-> "Buyer #7", isOnline |-> FALSE]

\* C31: the stored connected counts equal the registry sizes: the bidder
\* count is the number of entries of the bidder registry, the clerk count the
\* number of entries of the clerk registry, and neither is negative.
C31_CountsEqualRegistrySizes ==
    /\ connectedClients.bidders = Len(bidders)
    /\ connectedClients.clerks = Cardinality(clerks)
    /\ connectedClients.bidders >= 0
    /\ connectedClients.clerks >= 0

\* A bidder who had a bid in the queue has disconnected, leaving one clerk
\* and no bidder.
C31_Witness ==
    /\ \E i \in 1..Len(submittedBy) : submittedBy[i] = 0
    /\ bidders = << >>
    /\ Cardinality(clerks) = 1
    /\ connectedClients = [bidders |-> 0, clerks |-> 1]

\* C32: while the auction is not live the bid queue is empty.
C32_QueueEmptyUnlessLive == ~isLive => onlineBids = << >>

\* The auction has ended after a bid was queued at clock value 2, and a
\* bidder's later bid has just been refused because the auction is not live.
C32_Witness ==
    /\ ~isLive /\ ended /\ now = 2
    /\ onlineBids = << >>
    /\ \E j \in 1..Len(sent) :
          /\ sent[j].event = "bid:error"
          /\ sent[j].data.message = "AuctionNotLive"

\* C33: every bid in the queue was submitted against the current lot: its
\* lotNumber is the number of currentLot, so the bid a bid:accept finds is
\* always one placed on the lot that is current at the time of the accept.
C33_QueuedBidsAreForCurrentLot ==
    \A i \in 1..Len(onlineBids) :
        onlineBids[i].lotNumber = LotNumberOf(currentLot)

\* A bid on lot 2, the lot set after the auction was started on lot 1, has
\* been accepted and is still in the queue.
C33_Witness ==
    /\ currentLot = 2
    /\ \E i \in 1..Len(onlineBids) :
          /\ onlineBids[i].lotNumber = 2
          /\ onlineBids[i].status = "accepted"
          /\ currentBid = onlineBids[i].amount

\* C34: a bid is only ever queued against an active lot: when the queue is
\* not empty, currentLot is not null.
C34_QueuedBidsHaveALot == onlineBids # << >> => currentLot # Null

\* C35: whatever payloads arrive, currentBid stays a defined amount that is
\* not negative, every bid in the queue has a defined amount, and a bid
\* that enters the queue has an amount above the currentBid of that moment.
C35_AmountsStayNumeric ==
    [][ /\ currentBid' # Undef
        /\ currentBid' >= 0
        /\ \A i \in 1..Len(onlineBids') : onlineBids'[i].amount # Undef
        /\ ( Len(onlineBids') = Len(onlineBids) + 1
             => onlineBids'[Len(onlineBids')].amount > currentBid ) ]_vars

\* C36: the bid increment plays no part in validating a bid: a bid from a
\* registered bidder while the auction is live enters the queue as pending
\* exactly when its amount is above currentBid, also when it is below
\* currentBid + bidIncrement, and is otherwise refused as BidTooLow.
C36_IncrementIsNotValidated ==
    [][ \A s \in BidderSockets :
          isLive =>
            \A a \in Amounts, t \in Clock :
              BidSubmit(s, a, t)
              => IF a > currentBid
                 THEN /\ onlineBids' = Append(onlineBids, NewBid(GetBidder(s), a, t))
                      /\ onlineBids'[Len(onlineBids')].status = "pending"
                 ELSE /\ onlineBids' = onlineBids
                      /\ sent' = EmitTo(s, "bid:error",
                                        [message |-> "BidTooLow",
                                         currentBid |-> currentBid]) ]_vars

\* A bid above currentBid but below currentBid + bidIncrement has just been
\* confirmed and is pending at the tail of the queue.
C36_Witness ==
    /\ onlineBids # << >>
    /\ LET bid == onlineBids[Len(onlineBids)]
       IN  /\ bid.status = "pending"
           /\ bid.amount > currentBid
           /\ bid.amount < currentBid + bidIncrement
           /\ \E j \in 1..Len(sent) :
                 sent[j].event = "bid:confirmed" /\ sent[j].data.bid = bid

\* C37: auction:updateBid from a clerk sets currentBid to the given amount
\* and sends auction:bidUpdate with that currentBid and the given source
\* ("floor" when none is given) to every connected client, leaving isLive,
\* currentLot, bidIncrement and the queue as they were; a pending bid whose
\* amount is not above currentBid stays pending, and a bid:accept of it still
\* accepts it and sets currentBid to its amount.
C37_UpdateBidLeavesQueueAlone ==
    [][ /\ \A s \in clerks, d \in UpdateBidPayloads :
              AuctionUpdateBid(s, d.amount, d.source)
              => /\ currentBid' = d.amount
                 /\ Broadcast(sent', "auction:bidUpdate",
                              [currentBid |-> d.amount,
                               source |-> IF d.source = "" THEN "floor" ELSE d.source])
                 /\ Len(sent') = Cardinality(Sockets)
                 /\ UNCHANGED <<isLive, currentLot, bidIncrement, onlineBids>>
        /\ \A s \in clerks, b \in BidIds :
              LET i == FindIndex(onlineBids, b)
              IN  ( /\ i # 0
                    /\ onlineBids[i].status = "pending"
                    /\ onlineBids[i].amount <= currentBid
                    /\ BidAccept(s, b) )
                  => /\ onlineBids'[i].status = "accepted"
                     /\ currentBid' = onlineBids[i].amount ]_vars

\* A floor bid of 2 has just been announced while a bid of no more than 2 is
\* pending in the queue.
C37_Witness ==
    /\ currentBid = 2
    /\ \E i \in 1..Len(onlineBids) :
          onlineBids[i].status = "pending" /\ onlineBids[i].amount <= 2
    /\ \E j \in 1..Len(sent) :
          /\ sent[j].event = "auction:bidUpdate"
          /\ sent[j].data = [currentBid |-> 2, source |-> "online"]

\* C38: when a clerk resolves a waiting bid whose bidder's connection has
\* gone, the bid:accepted / bid:rejected notification goes, once, to a
\* connection now registered with the bid's bidderId (the one the bidder has
\* registered again on) and to nobody else; when no connection carries that
\* bidderId, a bid:accept still sets currentBid to the bid's amount, sends
\* auction:bidUpdate to every client and notifies nobody.
C38_ReconnectedBidderIsNotified ==
    [][ \A s \in clerks, b \in BidIds :
          LET i == FindIndex(onlineBids, b)
              accepting == BidAccept(s, b)
              resolving == accepting \/ \E r \in Reasons : BidReject(s, b, r)
          IN  ( /\ i # 0
                /\ onlineBids[i].status = "pending"
                /\ submittedBy[i] = 0
                /\ resolving )
              => IF SocketsOf(onlineBids[i].bidderId) # {}
                 THEN /\ Cardinality(Resolutions') = 1
                      /\ \A j \in Resolutions' :
                            /\ sent'[j].to \in SocketsOf(onlineBids[i].bidderId)
                            /\ sent'[j].event = (IF accepting THEN "bid:accepted"
                                                              ELSE "bid:rejected")
                            /\ sent'[j].data.bid = onlineBids'[i]
                 ELSE /\ Resolutions' = {}
                      /\ accepting
                         => /\ currentBid' = onlineBids[i].amount
                            /\ Broadcast(sent', "auction:bidUpdate",
                                         [currentBid |-> onlineBids[i].amount,
                                          source |-> "online",
                                          bidderName |-> onlineBids[i].bidderName]) ]_vars

\* A bid whose submitting connection has gone has just been accepted, and
\* bid:accepted went to the one connection now registered with its bidderId.
C38_Witness ==
    \E i \in 1..Len(onlineBids) :
        /\ submittedBy[i] = 0
        /\ onlineBids[i].status = "accepted"
        /\ Cardinality(SocketsOf(onlineBids[i].bidderId)) = 1
        /\ \E j \in SentEvents("bid:accepted") :
              /\ sent[j].to \in SocketsOf(onlineBids[i].bidderId)
              /\ sent[j].data.bid = onlineBids[i]
====
